---- MODULE Spec2Model ----
(***************************************************************************)
(* Countdown engine, preset activation and local persistence of the        *)
(* Pomodoro timer (src/contexts/TimerContext.tsx, src/lib/                  *)
(* timerPersistence.ts, src/unnamed/part_002).                              *)
(*                                                                         *)
(* One state of the model is one settled state of the TimerProvider        *)
(* component: the values of its useState/useRef cells and of the           *)
(* localStorage slot after an event handler has run and React has          *)
(* re-rendered and run the effects until nothing is left to run.  The      *)
(* cascade of renders and effects is computed by RunEffects, in the        *)
(* order in which the effects are declared in the component.               *)
(***************************************************************************)
EXTENDS Integers, Sequences, FiniteSets, TLC

VARIABLES
  timerState,           \* useState<TimerState>
  presets,              \* useState<Preset[]>, as the set of its elements
  activePresetId,       \* useState<string | null>
  user,                 \* useAuth().user
  hasRestoredState,     \* useState(initialData.current.restored)
  restoredPresetIdRef,  \* useRef(initialData.current.savedPresetId)
  initialPhaseIndex,    \* initialData.current.state.currentPhaseIndex
  intervalRef,          \* TRUE iff intervalRef.current holds an interval id
  liveTimers,           \* the number of intervals set and not cleared
  localStorage,         \* the slot 'pomodoro_timer_state': <<snapshot>> or <<>>
  syncTimerState,       \* useState(false), the sync preference as the component knows it
  remoteDoc,            \* users/{uid}/timerState/current of each user: <<snapshot>> or <<>>
  pendingLoads,         \* the users whose loadTimerStateFirebase has not resolved yet
  remoteOps,            \* the remote reads and writes the last step issued
  remoteFails,          \* whether the remote reads and writes of this device fail
  writes,               \* the snapshot writes of the last step: where to, the
                        \* savedAt they carry and the time they were made
  now,                  \* Date.now(), in milliseconds
  lastOp,               \* history: the control that ran last and what it found
  ticksSinceStart,      \* history: ticks since start() from idle, or -1
  restoredSnapshot,     \* history: <<what calculateRestoredState returned>> or <<>>
  editorPhases,         \* the phases array the preset form holds: phases with
                        \* their id and order, in array order
  boot,                 \* history: the slot and the remote documents at the page
                        \* load, and how far the boot has come
  tracker               \* useTimeTracker: its refs, its clock, the saveSession
                        \* calls in flight and the increments passed so far

vars == <<timerState, presets, activePresetId, user, hasRestoredState,
          restoredPresetIdRef, initialPhaseIndex, intervalRef, liveTimers,
          localStorage,
          syncTimerState, remoteDoc, pendingLoads, remoteOps, remoteFails,
          writes,
          editorPhases, now, lastOp, ticksSinceStart, restoredSnapshot, boot,
          tracker>>

-----------------------------------------------------------------------------
(* Bounds of the model *)

MaxPhases == 3
MaxDuration == 2
MaxListedPhases == 2
MaxClockSteps == 1
MaxSnapshotSeconds == 4
MaxRestoreClockSteps == 3
MaxEditorPhases == 5

(* Program constants *)

SecondsPerMinute == 60
MsPerSecond == 1000
DefaultWorkMinutes == 25
DefaultBreakMinutes == 5

(* Granularity of the wall clock readings the model distinguishes (ms) *)
ClockStep == 1500

-----------------------------------------------------------------------------
(* Values *)

NoUser == "null"
NoPresetId == "null"
NoSnapshot == <<>>
Undefined == <<>>

Users == {"u1"}
SyncUsers == {"u1", "u2"}
PresetIds == {"p1", "p2"}
Statuses == {"idle", "running", "paused", "completed"}
Durations == 1..MaxDuration
ClockValues == {k * ClockStep : k \in 0..MaxClockSteps}

RECURSIVE SeqsUpTo(_, _)
SeqsUpTo(S, n) ==
  IF n = 0 THEN {<<>>}
  ELSE LET shorter == SeqsUpTo(S, n - 1)
       IN  shorter \cup {Append(s, x) : s \in {t \in shorter : Len(t) = n - 1}, x \in S}

(* Every phase list of up to MaxPhases phases of 1..MaxDuration minutes *)
PhaseLists == SeqsUpTo(Durations, MaxPhases) \ {<<>>}

(* A clock that moves backwards between a save and a reload makes the    *)
(* restored totalSeconds larger than the saved one; reloads that would   *)
(* restore more than this are left out, which keeps the model finite.    *)
MaxRestoredSeconds ==
  MaxListedPhases * SecondsPerMinute
    + (MaxClockSteps * ClockStep + MsPerSecond - 1) \div MsPerSecond

(* The phase lists the preset documents of a snapshot carry: n phases of *)
(* 1, 2, .., n minutes                                                   *)
ListedPhaseLists == {[i \in 1..n |-> i] : n \in 1..MaxListedPhases}

-----------------------------------------------------------------------------
(* src/unnamed/part_002: presets *)

Preset(id, ph, loop) == [id |-> id, phases |-> ph, loopPhases |-> loop]

(* The value of activePreset when no preset has the active id (null) *)
NoPreset == Preset(NoPresetId, <<>>, FALSE)

(* A preset document as stored remotely: the phase list may be missing    *)
(* (legacy documents), in which case workMinutes/breakMinutes may be set. *)
(* An optional number is <<n>> when set and Undefined when not.           *)
PresetDoc(id, ph, loop, work, brk) ==
  [id |-> id, phases |-> ph, loopPhases |-> loop, workMinutes |-> work,
   breakMinutes |-> brk]

createDefaultPhases == <<DefaultWorkMinutes, DefaultBreakMinutes>>

migratePreset(doc) ==
  IF Len(doc.phases) > 0
  THEN Preset(doc.id, doc.phases, doc.loopPhases)
  ELSE LET work == IF doc.workMinutes # Undefined THEN <<doc.workMinutes[1]>> ELSE <<>>
           brk  == IF doc.breakMinutes # Undefined THEN <<doc.breakMinutes[1]>> ELSE <<>>
           phases == work \o brk
       IN  IF Len(phases) = 0
           THEN Preset(doc.id, createDefaultPhases, FALSE)
           ELSE Preset(doc.id, phases, FALSE)

(* presets.find((p) => p.id === activePresetId) || null *)
ActivePreset(ps, id) ==
  IF \E p \in ps : p.id = id THEN CHOOSE p \in ps : p.id = id ELSE NoPreset

-----------------------------------------------------------------------------
(* src/contexts/TimerContext.tsx: the countdown engine *)

TimerState(total, running, status, index) ==
  [totalSeconds |-> total, isRunning |-> running, status |-> status,
   currentPhaseIndex |-> index]

DefaultTimerState == TimerState(0, FALSE, "idle", 0)

(* phases[i].durationMinutes * 60, i zero-based *)
PhaseSeconds(ap, i) == ap.phases[i + 1] * SecondsPerMinute

(* !activePreset || !activePreset.phases || activePreset.phases.length === 0 *)
NoPhases(ap) == ap = NoPreset \/ Len(ap.phases) = 0

(* An initialization that forgets the duration of the first phase *)
InitializedStateZero(ap) == DefaultTimerState

(* The state the preset initialization effect installs *)
InitializedState(ap) ==
  IF ~NoPhases(ap)
  THEN TimerState(PhaseSeconds(ap, 0), FALSE, "idle", 0)
  ELSE DefaultTimerState

(* reset() that leaves the engine paused instead of idle *)
ResetStatePaused(ap) == TimerState(PhaseSeconds(ap, 0), FALSE, "paused", 0)

(* The state reset() installs; the caller has checked that the preset has phases *)
ResetState(ap) == TimerState(PhaseSeconds(ap, 0), FALSE, "idle", 0)

(* A tick whose decrement rebuilds the state and loses the phase index *)
TickUpdateForgetsIndex(prev, ap) ==
  IF prev.totalSeconds <= 1
  THEN [prev EXCEPT !.totalSeconds = 0, !.isRunning = FALSE, !.status = "completed"]
  ELSE TimerState(prev.totalSeconds - 1, prev.isRunning, prev.status, 0)

(* A tick that takes the phase boundary at 0 instead of 1 *)
TickUpdateLate(prev, ap) ==
  IF prev.totalSeconds <= 0
  THEN LET nextPhaseIndex == prev.currentPhaseIndex + 1
       IN  IF nextPhaseIndex < Len(ap.phases)
           THEN TimerState(PhaseSeconds(ap, nextPhaseIndex), TRUE, "running",
                           nextPhaseIndex)
           ELSE IF ap.loopPhases
           THEN TimerState(PhaseSeconds(ap, 0), TRUE, "running", 0)
           ELSE [prev EXCEPT !.totalSeconds = 0, !.isRunning = FALSE,
                             !.status = "completed"]
  ELSE [prev EXCEPT !.totalSeconds = prev.totalSeconds - 1]

(* A tick that stops after the last phase whatever loopPhases says *)
TickUpdateNeverLoops(prev, ap) ==
  IF prev.totalSeconds <= 1
  THEN LET nextPhaseIndex == prev.currentPhaseIndex + 1
       IN  IF nextPhaseIndex < Len(ap.phases)
           THEN TimerState(PhaseSeconds(ap, nextPhaseIndex), TRUE, "running",
                           nextPhaseIndex)
           ELSE [prev EXCEPT !.totalSeconds = 0, !.isRunning = FALSE,
                             !.status = "completed"]
  ELSE [prev EXCEPT !.totalSeconds = prev.totalSeconds - 1]

(* A tick that starts over after the last phase whatever loopPhases says *)
TickUpdateAlwaysLoops(prev, ap) ==
  IF prev.totalSeconds <= 1
  THEN LET nextPhaseIndex == prev.currentPhaseIndex + 1
       IN  IF nextPhaseIndex < Len(ap.phases)
           THEN TimerState(PhaseSeconds(ap, nextPhaseIndex), TRUE, "running",
                           nextPhaseIndex)
           ELSE TimerState(PhaseSeconds(ap, 0), TRUE, "running", 0)
  ELSE [prev EXCEPT !.totalSeconds = prev.totalSeconds - 1]

(* The updater of the interval callback *)
TickUpdate(prev, ap) ==
  IF prev.totalSeconds <= 1
  THEN IF ap # NoPreset
       THEN LET nextPhaseIndex == prev.currentPhaseIndex + 1
            IN  IF nextPhaseIndex < Len(ap.phases)
                THEN TimerState(PhaseSeconds(ap, nextPhaseIndex), TRUE, "running",
                                nextPhaseIndex)
                ELSE IF ap.loopPhases
                THEN TimerState(PhaseSeconds(ap, 0), TRUE, "running", 0)
                ELSE [prev EXCEPT !.totalSeconds = 0, !.isRunning = FALSE,
                                  !.status = "completed"]
       ELSE [prev EXCEPT !.totalSeconds = 0, !.isRunning = FALSE,
                         !.status = "completed"]
  ELSE [prev EXCEPT !.totalSeconds = prev.totalSeconds - 1]

(* start() that resumes in place from every status *)
StartUpdateAlwaysResumes(prev, ap) ==
  IF prev.totalSeconds = 0 /\ prev.currentPhaseIndex + 1 \in DOMAIN ap.phases
  THEN [prev EXCEPT !.totalSeconds = PhaseSeconds(ap, prev.currentPhaseIndex),
                    !.isRunning = TRUE, !.status = "running"]
  ELSE [prev EXCEPT !.isRunning = TRUE, !.status = "running"]

(* start() without the refill of a phase that stands at 0 *)
StartUpdateNoRefill(prev, ap) ==
  IF prev.status = "completed" \/ prev.status = "idle"
  THEN TimerState(PhaseSeconds(ap, 0), TRUE, "running", 0)
  ELSE [prev EXCEPT !.isRunning = TRUE, !.status = "running"]

(* The updater of start(); the caller has checked that the preset has phases *)
StartUpdate(prev, ap) ==
  IF prev.status = "completed" \/ prev.status = "idle"
  THEN TimerState(PhaseSeconds(ap, 0), TRUE, "running", 0)
  ELSE IF prev.totalSeconds = 0 /\ prev.currentPhaseIndex + 1 \in DOMAIN ap.phases
  THEN [prev EXCEPT !.totalSeconds = PhaseSeconds(ap, prev.currentPhaseIndex),
                    !.isRunning = TRUE, !.status = "running"]
  ELSE [prev EXCEPT !.isRunning = TRUE, !.status = "running"]

(* pause() that sets the status and forgets the running flag *)
PauseUpdateStatusOnly(prev) == [prev EXCEPT !.status = "paused"]

(* The updater of pause() *)
PauseUpdate(prev) == [prev EXCEPT !.isRunning = FALSE, !.status = "paused"]

(* skipToNextPhase() that wraps to phase 0 with the duration of the phase it left *)
SkipNextUpdateWrapsStale(prev, ap) ==
  LET nextIndex == prev.currentPhaseIndex + 1
  IN  IF nextIndex < Len(ap.phases)
      THEN TimerState(PhaseSeconds(ap, nextIndex), FALSE, "paused", nextIndex)
      ELSE IF ap.loopPhases
      THEN TimerState(PhaseSeconds(ap, prev.currentPhaseIndex), FALSE, "paused", 0)
      ELSE prev

(* The updater of skipToNextPhase(); returns prev itself when it stays put *)
SkipNextUpdate(prev, ap) ==
  LET nextIndex == prev.currentPhaseIndex + 1
  IN  IF nextIndex < Len(ap.phases)
      THEN TimerState(PhaseSeconds(ap, nextIndex), FALSE, "paused", nextIndex)
      ELSE IF ap.loopPhases
      THEN TimerState(PhaseSeconds(ap, 0), FALSE, "paused", 0)
      ELSE prev

SkipNextStays(prev, ap) ==
  prev.currentPhaseIndex + 1 >= Len(ap.phases) /\ ~ap.loopPhases

(* skipToPreviousPhase() that wraps from phase 0 whatever loopPhases says *)
SkipPreviousStaysNever(prev, ap) == FALSE

(* skipToPreviousPhase() that stays at phase 0 instead of wrapping *)
SkipPreviousUpdateNoWrap(prev, ap) ==
  LET prevIndex == prev.currentPhaseIndex - 1
  IN  IF prevIndex >= 0
      THEN TimerState(PhaseSeconds(ap, prevIndex), FALSE, "paused", prevIndex)
      ELSE TimerState(PhaseSeconds(ap, 0), FALSE, "paused", 0)

(* The updater of skipToPreviousPhase() *)
SkipPreviousUpdate(prev, ap) ==
  LET prevIndex == prev.currentPhaseIndex - 1
  IN  IF prevIndex >= 0
      THEN TimerState(PhaseSeconds(ap, prevIndex), FALSE, "paused", prevIndex)
      ELSE IF ap.loopPhases
      THEN TimerState(PhaseSeconds(ap, Len(ap.phases) - 1), FALSE, "paused",
                      Len(ap.phases) - 1)
      ELSE prev

SkipPreviousStays(prev, ap) ==
  prev.currentPhaseIndex - 1 < 0 /\ ~ap.loopPhases

(* The guard of goToPhase(index) *)
GoToPhaseRejects(ap, index) ==
  ap = NoPreset \/ index < 0 \/ index >= Len(ap.phases)

(* goToPhase() that keeps the engine running *)
GoToPhaseStateKeepsRunning(ap, index) ==
  TimerState(PhaseSeconds(ap, index), timerState.isRunning,
             IF timerState.isRunning THEN "running" ELSE "paused", index)

GoToPhaseState(ap, index) ==
  TimerState(PhaseSeconds(ap, index), FALSE, "paused", index)

-----------------------------------------------------------------------------
(* src/lib/timerPersistence.ts *)

createPersistedState(total, index, status, pid, running, t) ==
  [totalSeconds |-> total, currentPhaseIndex |-> index, status |-> status,
   activePresetId |-> pid, isRunning |-> running, savedAt |-> t]

Max(a, b) == IF a >= b THEN a ELSE b

(* Reconciliation that stamps savedAt on every snapshot *)
calculateRestoredStateStampsAll(savedState, t) ==
  IF ~savedState.isRunning \/ savedState.status # "running"
  THEN [savedState EXCEPT !.savedAt = t]
  ELSE LET elapsedSeconds == (t - savedState.savedAt) \div MsPerSecond
           adjustedSeconds == Max(0, savedState.totalSeconds - elapsedSeconds)
       IN  IF adjustedSeconds = 0
           THEN [savedState EXCEPT !.totalSeconds = 0, !.isRunning = FALSE,
                                   !.status = "paused", !.savedAt = t]
           ELSE [savedState EXCEPT !.totalSeconds = adjustedSeconds,
                                   !.savedAt = t]

(* Reconciliation that rounds the elapsed time up to the next second *)
calculateRestoredStateRoundsUp(savedState, t) ==
  IF ~savedState.isRunning \/ savedState.status # "running"
  THEN savedState
  ELSE LET elapsedSeconds ==
             (t - savedState.savedAt + MsPerSecond - 1) \div MsPerSecond
           adjustedSeconds == Max(0, savedState.totalSeconds - elapsedSeconds)
       IN  IF adjustedSeconds = 0
           THEN [savedState EXCEPT !.totalSeconds = 0, !.isRunning = FALSE,
                                   !.status = "paused", !.savedAt = t]
           ELSE [savedState EXCEPT !.totalSeconds = adjustedSeconds,
                                   !.savedAt = t]

(* Reconciliation that marks an expired snapshot completed *)
calculateRestoredStateCompletes(savedState, t) ==
  IF ~savedState.isRunning \/ savedState.status # "running"
  THEN savedState
  ELSE LET elapsedSeconds == (t - savedState.savedAt) \div MsPerSecond
           adjustedSeconds == Max(0, savedState.totalSeconds - elapsedSeconds)
       IN  IF adjustedSeconds = 0
           THEN [savedState EXCEPT !.totalSeconds = 0, !.isRunning = FALSE,
                                   !.status = "completed", !.savedAt = t]
           ELSE [savedState EXCEPT !.totalSeconds = adjustedSeconds,
                                   !.savedAt = t]

calculateRestoredState(savedState, t) ==
  IF ~savedState.isRunning \/ savedState.status # "running"
  THEN savedState
  ELSE LET elapsedSeconds == (t - savedState.savedAt) \div MsPerSecond
           adjustedSeconds == Max(0, savedState.totalSeconds - elapsedSeconds)
       IN  IF adjustedSeconds = 0
           THEN [savedState EXCEPT !.totalSeconds = 0, !.isRunning = FALSE,
                                   !.status = "paused", !.savedAt = t]
           ELSE [savedState EXCEPT !.totalSeconds = adjustedSeconds,
                                   !.savedAt = t]

(* getInitialTimerState(): what the component is constructed with *)
getInitialTimerState(slot, t) ==
  IF slot # NoSnapshot
  THEN LET restoredState == calculateRestoredState(slot[1], t)
       IN  [state |-> TimerState(restoredState.totalSeconds, restoredState.isRunning,
                                 restoredState.status, restoredState.currentPhaseIndex),
            restored |-> TRUE,
            savedPresetId |-> restoredState.activePresetId]
  ELSE [state |-> DefaultTimerState, restored |-> FALSE, savedPresetId |-> NoPresetId]

-----------------------------------------------------------------------------
(* src/contexts/TimerContext.tsx: TimerProvider, renders and effects *)

(* The cells of the component and the storage its effects write *)
Component ==
  [ts |-> timerState, presets |-> presets, pid |-> activePresetId,
   user |-> user, has |-> hasRestoredState, rref |-> restoredPresetIdRef,
   iref |-> intervalRef, timers |-> liveTimers, local |-> localStorage,
   sync |-> syncTimerState, sref |-> syncTimerState, remote |-> remoteDoc,
   pending |-> pendingLoads, ops |-> {}, writes |-> {}, down |-> remoteFails]

(* Which effect dependencies differ from the previous render *)
Changed(u, ap, pid, has, ts, run) ==
  [user |-> u, ap |-> ap, pid |-> pid, has |-> has, ts |-> ts, run |-> run,
   sync |-> FALSE]

AllChanged == [Changed(TRUE, TRUE, TRUE, TRUE, TRUE, TRUE) EXCEPT !.sync = TRUE]

(* A snapshot write as made: saveTimerStateLocal or saveTimerStateFirebase *)
Written(to, snapshot, t) == [to |-> to, savedAt |-> snapshot.savedAt, at |-> t]

(* A remote operation as issued: for which user, and what the component *)
(* held as the sync preference in that render                            *)
RemoteOp(kind, c) == [kind |-> kind, user |-> c.user, sync |-> c.sync]

(* The ref effect, deps [syncTimerState]: the value the later effects of *)
(* the same render read from syncTimerStateRef.current                   *)
SyncRefNow(c, d) == IF d.sync THEN c.sync ELSE c.sref

(* Load effect, deps [user]: the guard of loadFirebaseState *)
LoadIssues(c, d) == d.user /\ c.user # NoUser /\ SyncRefNow(c, d)

(* The save effect writing to the remote document whatever the preference *)
SaveRemoteAlways(c, d) == c.user # NoUser

(* The save effect's remote branch *)
SaveRemote(c, d) == SyncRefNow(c, d) /\ c.user # NoUser

(* Subscription effect, deps [user]: the signed-out branch *)
SubscribeClears(c, d) == d.user /\ c.user = NoUser

(* The initialization effect without activePreset among its dependencies *)
InitRunsOnIdOnly(d) == d.pid \/ d.has

(* Preset initialization effect, deps [activePreset, activePresetId, hasRestoredState] *)
InitRuns(d) == d.ap \/ d.pid \/ d.has

InitSkips(c) == c.has /\ c.rref = c.pid

(* A save effect that misses the timerState dependency *)
SaveRunsOnIdOnly(d) == d.pid \/ d.user

(* Save effect, deps [timerState, activePresetId, user] *)
SaveRuns(d) == d.ts \/ d.pid \/ d.user

SaveSkips(c) ==
  c.ts.status = "idle" /\ c.ts.totalSeconds = 0 /\ c.pid = NoPresetId

(* Countdown effect, deps [timerState.isRunning, activePreset] *)
CountdownRuns(d) == d.run \/ d.ap

(* A cleanup that leaves the interval set *)
CountdownCleanupKeeps(c) == c

(* The cleanup the countdown effect returned when it set an interval *)
CountdownCleanup(c) ==
  IF c.iref THEN [c EXCEPT !.iref = FALSE, !.timers = @ - 1] ELSE c

(* The body of the countdown effect *)
CountdownBody(c) ==
  IF ~c.ts.isRunning
  THEN IF c.iref THEN [c EXCEPT !.iref = FALSE, !.timers = @ - 1] ELSE c
  ELSE [c EXCEPT !.iref = TRUE, !.timers = @ + 1]

(* One render's effects, in declaration order, then the render their      *)
(* state updates cause, until a render changes no dependency.             *)
RECURSIVE RunEffects(_, _, _)
RunEffects(c, d, t) ==
  IF ~(d.user \/ d.ap \/ d.pid \/ d.has \/ d.ts \/ d.run \/ d.sync)
  THEN c
  ELSE LET ap == ActivePreset(c.presets, c.pid)
           clears == SubscribeClears(c, d)
           initSets == InitRuns(d) /\ ~InitSkips(c)
           timer == IF CountdownRuns(d) THEN CountdownBody(CountdownCleanup(c)) ELSE c
           saves == SaveRuns(d) /\ ~SaveSkips(c)
           persistedState ==
             createPersistedState(c.ts.totalSeconds, c.ts.currentPhaseIndex,
                                  c.ts.status, c.pid, c.ts.isRunning, t)
           next ==
             [c EXCEPT
                !.sref = SyncRefNow(c, d),
                !.sync = IF clears THEN FALSE ELSE @,
                !.pending = IF LoadIssues(c, d) THEN @ \cup {c.user} ELSE @,
                !.remote = IF saves /\ SaveRemote(c, d) /\ ~c.down
                           THEN [@ EXCEPT ![c.user] = <<persistedState>>]
                           ELSE @,
                !.writes = @ \cup (IF saves
                                   THEN {Written("local", persistedState, t)}
                                   ELSE {})
                             \cup (IF saves /\ SaveRemote(c, d)
                                   THEN {Written("remote", persistedState, t)}
                                   ELSE {}),
                !.ops = @ \cup (IF LoadIssues(c, d) THEN {RemoteOp("read", c)} ELSE {})
                          \cup (IF saves /\ SaveRemote(c, d)
                                THEN {RemoteOp("write", c)} ELSE {}),
                !.presets = IF clears THEN {} ELSE @,
                !.pid = IF clears THEN NoPresetId ELSE @,
                !.has = IF InitRuns(d) /\ InitSkips(c) THEN FALSE ELSE @,
                !.ts = IF initSets THEN InitializedState(ap) ELSE @,
                !.local = IF saves THEN <<persistedState>> ELSE @,
                !.iref = timer.iref,
                !.timers = timer.timers]
       IN  RunEffects(next,
                      [Changed(FALSE, clears /\ ap # NoPreset, next.pid # c.pid,
                               next.has # c.has, initSets,
                               next.ts.isRunning # c.ts.isRunning)
                         EXCEPT !.sync = next.sync # c.sync],
                      t)

Commit(c) ==
  /\ timerState' = c.ts
  /\ presets' = c.presets
  /\ activePresetId' = c.pid
  /\ user' = c.user
  /\ hasRestoredState' = c.has
  /\ restoredPresetIdRef' = c.rref
  /\ intervalRef' = c.iref
  /\ liveTimers' = c.timers
  /\ localStorage' = c.local
  /\ syncTimerState' = c.sync
  /\ remoteDoc' = c.remote
  /\ pendingLoads' = c.pending
  /\ remoteOps' = c.ops
  /\ writes' = c.writes
  /\ remoteFails' = c.down

(* setTimerState(next) with a new object, then the renders it causes *)
SetTimerState(next) ==
  \E c \in {RunEffects([Component EXCEPT !.ts = next],
                       Changed(FALSE, FALSE, FALSE, FALSE, TRUE,
                               next.isRunning # timerState.isRunning),
                       now)} :
    Commit(c)

(* History kept by the engine specification: the control that ran, the  *)
(* status and whether totalSeconds was 0 before it, and its argument as *)
(* <<index>> (<<>> for a control without argument)                      *)
RanWith(op, arg) ==
  /\ lastOp' = [op |-> op, status |-> timerState.status,
                zero |-> timerState.totalSeconds = 0, arg |-> arg]
  /\ ticksSinceStart' =
       IF op = "start" /\ timerState.status = "idle"
          /\ ~NoPhases(ActivePreset(presets, activePresetId))
          /\ ~ActivePreset(presets, activePresetId).loopPhases
       THEN 0
       ELSE IF op = "tick" /\ ticksSinceStart >= 0
       THEN ticksSinceStart + 1
       ELSE -1
  /\ UNCHANGED <<restoredSnapshot, boot, editorPhases, tracker>>

Ran(op) == RanWith(op, <<>>)

NoHistory ==
  UNCHANGED <<lastOp, ticksSinceStart, restoredSnapshot, boot, editorPhases, tracker>>

componentVars ==
  <<timerState, presets, activePresetId, user, hasRestoredState,
    restoredPresetIdRef, intervalRef, liveTimers, localStorage,
    syncTimerState, remoteDoc, pendingLoads, remoteOps, remoteFails, writes>>

-----------------------------------------------------------------------------
(* Timer controls *)

start ==
  LET activePreset == ActivePreset(presets, activePresetId)
  IN  /\ IF NoPhases(activePreset)
         THEN UNCHANGED componentVars
         ELSE SetTimerState(StartUpdate(timerState, activePreset))
      /\ UNCHANGED <<now, initialPhaseIndex>>

pause ==
  /\ SetTimerState(PauseUpdate(timerState))
  /\ UNCHANGED <<now, initialPhaseIndex>>

(* reset() without its guard: with no phases it installs the default state *)
resetUnguarded ==
  LET activePreset == ActivePreset(presets, activePresetId)
  IN  /\ SetTimerState(InitializedState(activePreset))
      /\ UNCHANGED <<now, initialPhaseIndex>>

reset ==
  LET activePreset == ActivePreset(presets, activePresetId)
  IN  /\ IF NoPhases(activePreset)
         THEN UNCHANGED componentVars
         ELSE SetTimerState(ResetState(activePreset))
      /\ UNCHANGED <<now, initialPhaseIndex>>

skipToNextPhase ==
  LET activePreset == ActivePreset(presets, activePresetId)
  IN  /\ IF NoPhases(activePreset) \/ SkipNextStays(timerState, activePreset)
         THEN UNCHANGED componentVars
         ELSE SetTimerState(SkipNextUpdate(timerState, activePreset))
      /\ UNCHANGED <<now, initialPhaseIndex>>

skipToPreviousPhase ==
  LET activePreset == ActivePreset(presets, activePresetId)
  IN  /\ IF NoPhases(activePreset) \/ SkipPreviousStays(timerState, activePreset)
         THEN UNCHANGED componentVars
         ELSE SetTimerState(SkipPreviousUpdate(timerState, activePreset))
      /\ UNCHANGED <<now, initialPhaseIndex>>

goToPhase(index) ==
  LET activePreset == ActivePreset(presets, activePresetId)
  IN  /\ IF GoToPhaseRejects(activePreset, index)
         THEN UNCHANGED componentVars
         ELSE SetTimerState(GoToPhaseState(activePreset, index))
      /\ UNCHANGED <<now, initialPhaseIndex>>

(* The interval callback; it is called while an interval is set *)
tick ==
  /\ liveTimers > 0
  /\ SetTimerState(TickUpdate(timerState, ActivePreset(presets, activePresetId)))
  /\ UNCHANGED <<now, initialPhaseIndex>>

-----------------------------------------------------------------------------
(* Events from outside the component *)

(* The preset documents a snapshot of the presets collection can carry *)
(* "p1" ranges over the listed phase lists and both loop settings; "p2" *)
(* is a second preset to switch to, with one phase of one minute.        *)
PresetDocs(id) ==
  IF id = "p1"
  THEN {PresetDoc(id, ph, loop, Undefined, Undefined) :
          ph \in ListedPhaseLists, loop \in BOOLEAN}
  ELSE {PresetDoc(id, <<1>>, FALSE, Undefined, Undefined)}

DocChoices(id) == {{}} \cup {{doc} : doc \in PresetDocs(id)}

PresetSnapshots == {a \cup b : a \in DocChoices("p1"), b \in DocChoices("p2")}

(* onAuthStateChanged delivers a user *)
SignIn(u) ==
  /\ user = NoUser
  /\ Commit(RunEffects([Component EXCEPT !.user = u],
                       Changed(TRUE, FALSE, FALSE, FALSE, FALSE, FALSE), now))
  /\ UNCHANGED <<now, initialPhaseIndex>>

SignOut ==
  /\ user # NoUser
  /\ Commit(RunEffects([Component EXCEPT !.user = NoUser],
                       Changed(TRUE, FALSE, FALSE, FALSE, FALSE, FALSE), now))
  /\ UNCHANGED <<now, initialPhaseIndex>>

(* The callback of subscribeToPresets: setPresets(docs.map(migratePreset)) *)
PresetsSnapshot(docs) ==
  LET newPresets == {migratePreset(doc) : doc \in docs}
      before == ActivePreset(presets, activePresetId)
      after == ActivePreset(newPresets, activePresetId)
  IN  /\ user # NoUser
      /\ Commit(RunEffects([Component EXCEPT !.presets = newPresets],
                           Changed(FALSE, before # NoPreset \/ after # NoPreset,
                                   FALSE, FALSE, FALSE, FALSE), now))
      /\ UNCHANGED <<now, initialPhaseIndex>>

(* The callback of subscribeToUserSettings: setActivePresetIdState(id) *)
SettingsSnapshot(id) ==
  LET before == ActivePreset(presets, activePresetId)
      after == ActivePreset(presets, id)
  IN  /\ user # NoUser
      /\ id # activePresetId
      /\ Commit(RunEffects([Component EXCEPT !.pid = id],
                           Changed(FALSE, before # after, TRUE, FALSE, FALSE, FALSE),
                           now))
      /\ UNCHANGED <<now, initialPhaseIndex>>

(* The page is left and loaded again when the wall clock reads t, which  *)
(* may be before the time of the last save (the clock can be set back).  *)
(* flush: the beforeunload handler ran; u: the user the new component is *)
(* constructed with.                                                     *)
UnloadSlot(flush) ==
  IF flush
  THEN <<createPersistedState(timerState.totalSeconds,
           timerState.currentPhaseIndex, timerState.status,
           activePresetId, timerState.isRunning, now)>>
  ELSE localStorage

(* The component after its first render and effects, constructed at time *)
(* t with the slot, the user and the remote documents as given           *)
Mount(slot, t, u, remote) ==
  LET initialData == getInitialTimerState(slot, t)
  IN  RunEffects([ts |-> initialData.state, presets |-> {},
                  pid |-> NoPresetId, user |-> u,
                  has |-> initialData.restored,
                  rref |-> initialData.savedPresetId,
                  iref |-> FALSE, timers |-> 0, local |-> slot,
                  sync |-> FALSE, sref |-> FALSE, remote |-> remote,
                  pending |-> {}, ops |-> {}, writes |-> {},
                  down |-> remoteFails],
                 AllChanged, t)

Reload(flush, t, u) ==
  LET slot == UnloadSlot(flush)
      initialData == getInitialTimerState(slot, t)
  IN  /\ initialData.state.totalSeconds <= MaxRestoredSeconds
      /\ Commit([Mount(slot, t, u, remoteDoc) EXCEPT
                   !.writes = @ \cup (IF flush
                                      THEN {Written("local", slot[1], now)}
                                      ELSE {})])
      /\ initialPhaseIndex' = initialData.state.currentPhaseIndex
      /\ now' = t

-----------------------------------------------------------------------------
(* No remote document exists and no remote operation is under way *)
NoRemoteDocs == [u \in SyncUsers |-> NoSnapshot]

NoBoot == [local |-> NoSnapshot, remote |-> NoRemoteDocs, phase |-> "over"]

(* useTimeTracker before the hook is mounted with a user *)
NoTracker ==
  [mounted |-> FALSE, hidden |-> FALSE, sessionId |-> FALSE, recording |-> FALSE,
   elapsedSeconds |-> 0, lastSavedSeconds |-> 0, isActive |-> FALSE,
   lastTick |-> 0, clock |-> 0, nextSave |-> 0,
   updating |-> 0, incrementing |-> 0, passed |-> 0]

SyncOff ==
  /\ syncTimerState = FALSE
  /\ remoteDoc = NoRemoteDocs
  /\ pendingLoads = {}
  /\ remoteOps = {}
  /\ writes = {}
  /\ remoteFails = FALSE

Init ==
  /\ timerState = DefaultTimerState
  /\ presets = {}
  /\ activePresetId = NoPresetId
  /\ user = NoUser
  /\ hasRestoredState = FALSE
  /\ restoredPresetIdRef = NoPresetId
  /\ initialPhaseIndex = 0
  /\ intervalRef = FALSE
  /\ liveTimers = 0
  /\ localStorage = NoSnapshot
  /\ now = 0
  /\ lastOp = [op |-> "mount", status |-> "idle", zero |-> TRUE, arg |-> <<>>]
  /\ ticksSinceStart = -1
  /\ restoredSnapshot = <<>>
  /\ SyncOff
  /\ editorPhases = <<>>
  /\ tracker = NoTracker
  /\ boot = NoBoot

(* The whole component: controls, ticks, authentication, preset and      *)
(* settings snapshots and page reloads.                                  *)
Next ==
  \/ start /\ NoHistory
  \/ pause /\ NoHistory
  \/ reset /\ NoHistory
  \/ skipToNextPhase /\ NoHistory
  \/ skipToPreviousPhase /\ NoHistory
  \/ \E index \in -1..MaxListedPhases : goToPhase(index) /\ NoHistory
  \/ tick /\ NoHistory
  \/ \E u \in Users : SignIn(u) /\ NoHistory
  \/ SignOut /\ NoHistory
  \/ \E docs \in PresetSnapshots : PresetsSnapshot(docs) /\ NoHistory
  \/ \E id \in PresetIds \cup {NoPresetId} : SettingsSnapshot(id) /\ NoHistory
  \/ \E flush \in BOOLEAN, t \in ClockValues, u \in Users \cup {NoUser} :
        Reload(flush, t, u) /\ NoHistory

Spec == Init /\ [][Next]_vars

-----------------------------------------------------------------------------
(* The engine on one activated preset: controls and ticks only.  The      *)
(* initial states are those of Spec after sign-in, a presets snapshot    *)
(* with the preset and a settings snapshot naming it.                    *)

EnginePresets == {Preset("p1", ph, loop) : ph \in PhaseLists, loop \in BOOLEAN}

InitEngine ==
  \E ap \in EnginePresets :
    /\ timerState = InitializedState(ap)
    /\ presets = {ap}
    /\ activePresetId = ap.id
    /\ user = "u1"
    /\ hasRestoredState = FALSE
    /\ restoredPresetIdRef = NoPresetId
    /\ initialPhaseIndex = 0
    /\ intervalRef = FALSE
    /\ liveTimers = 0
    /\ localStorage =
         <<createPersistedState(InitializedState(ap).totalSeconds, 0, "idle",
                                ap.id, FALSE, 0)>>
    /\ now = 0
    /\ lastOp = [op |-> "settings", status |-> "idle", zero |-> TRUE, arg |-> <<>>]
    /\ ticksSinceStart = -1
    /\ restoredSnapshot = <<>>
    /\ SyncOff
    /\ editorPhases = <<>>
    /\ tracker = NoTracker
    /\ boot = NoBoot

NextEngine ==
  \/ start /\ Ran("start")
  \/ pause /\ Ran("pause")
  \/ reset /\ Ran("reset")
  \/ skipToNextPhase /\ Ran("skipToNextPhase")
  \/ skipToPreviousPhase /\ Ran("skipToPreviousPhase")
  \/ \E index \in -1..MaxPhases :
        goToPhase(index) /\ RanWith("goToPhase", <<index>>)
  \/ tick /\ Ran("tick")

SpecEngine == InitEngine /\ [][NextEngine]_vars

-----------------------------------------------------------------------------
(* The controls while no preset is active: signed out, or signed in with *)
(* a list of presets and a settings document that names none of them.    *)
(* The engine state is the default one; the save effect has skipped it   *)
(* unless the settings document names a preset.                          *)

InitNoPreset ==
  \E ap \in EnginePresets, u \in Users \cup {NoUser},
     pid \in PresetIds \cup {NoPresetId} :
    /\ pid # ap.id
    /\ u = NoUser => pid = NoPresetId
    /\ timerState = DefaultTimerState
    /\ user = u
    /\ presets = IF u = NoUser THEN {} ELSE {ap}
    /\ activePresetId = pid
    /\ hasRestoredState = FALSE
    /\ restoredPresetIdRef = NoPresetId
    /\ initialPhaseIndex = 0
    /\ intervalRef = FALSE
    /\ liveTimers = 0
    /\ localStorage =
         IF pid = NoPresetId
         THEN NoSnapshot
         ELSE <<createPersistedState(0, 0, "idle", pid, FALSE, 0)>>
    /\ now = 0
    /\ lastOp = [op |-> "mount", status |-> "idle", zero |-> TRUE, arg |-> <<>>]
    /\ ticksSinceStart = -1
    /\ restoredSnapshot = <<>>
    /\ SyncOff
    /\ editorPhases = <<>>
    /\ tracker = NoTracker
    /\ boot = NoBoot

NextNoPreset ==
  \/ start /\ Ran("start")
  \/ pause /\ Ran("pause")
  \/ reset /\ Ran("reset")
  \/ skipToNextPhase /\ Ran("skipToNextPhase")
  \/ skipToPreviousPhase /\ Ran("skipToPreviousPhase")
  \/ \E index \in -1..MaxPhases :
        goToPhase(index) /\ RanWith("goToPhase", <<index>>)

SpecNoPreset == InitNoPreset /\ [][NextNoPreset]_vars

-----------------------------------------------------------------------------
(* Reconciliation as a function: one call of calculateRestoredState on   *)
(* the snapshot in the slot, at each reading of the clock.               *)

RestoreClock == {k * ClockStep : k \in 0..MaxRestoreClockSteps}

PersistedTimerStates ==
  [totalSeconds : 0..MaxSnapshotSeconds, currentPhaseIndex : 0..(MaxPhases - 1),
   status : Statuses, activePresetId : PresetIds \cup {NoPresetId},
   savedAt : RestoreClock, isRunning : BOOLEAN]

InitRestore ==
  /\ localStorage \in {<<savedState>> : savedState \in PersistedTimerStates}
  /\ now \in RestoreClock
  /\ restoredSnapshot = <<>>
  /\ SyncOff
  /\ editorPhases = <<>>
  /\ tracker = NoTracker
  /\ boot = NoBoot
  /\ timerState = DefaultTimerState
  /\ presets = {}
  /\ activePresetId = NoPresetId
  /\ user = NoUser
  /\ hasRestoredState = FALSE
  /\ restoredPresetIdRef = NoPresetId
  /\ initialPhaseIndex = 0
  /\ intervalRef = FALSE
  /\ liveTimers = 0
  /\ lastOp = [op |-> "mount", status |-> "idle", zero |-> TRUE, arg |-> <<>>]
  /\ ticksSinceStart = -1

Restore ==
  /\ restoredSnapshot = <<>>
  /\ restoredSnapshot' = <<calculateRestoredState(localStorage[1], now)>>
  /\ UNCHANGED <<componentVars, now, initialPhaseIndex, lastOp, ticksSinceStart,
                 boot, editorPhases, tracker>>

SpecRestore == InitRestore /\ [][Restore]_vars

-----------------------------------------------------------------------------
(* The component with cross-device sync: two accounts, the sync          *)
(* preference arriving with the settings, remote loads resolving later,  *)
(* and another device of the same account writing the remote document.   *)

(* The callback of subscribeToUserSettings: both setters, one render *)
UserSettingsSnapshot(id, sync) ==
  LET before == ActivePreset(presets, activePresetId)
      after == ActivePreset(presets, id)
  IN  /\ user # NoUser
      /\ <<id, sync>> # <<activePresetId, syncTimerState>>
      /\ Commit(RunEffects([Component EXCEPT !.pid = id, !.sync = sync],
                           [Changed(FALSE, before # after, id # activePresetId,
                                    FALSE, FALSE, FALSE)
                              EXCEPT !.sync = sync # syncTimerState],
                           now))
      /\ UNCHANGED <<now, initialPhaseIndex>>

(* onAuthStateChanged delivers another account while one is signed in *)
SwitchUser(u) ==
  /\ user # NoUser
  /\ u # user
  /\ Commit(RunEffects([Component EXCEPT !.user = u],
                       Changed(TRUE, FALSE, FALSE, FALSE, FALSE, FALSE), now))
  /\ UNCHANGED <<now, initialPhaseIndex>>

(* A read that answers with the document although it failed *)
LoadedDocumentDespiteFailure(u, fails) == remoteDoc[u]

(* What loadTimerStateFirebase(u) resolves with: null when it fails *)
LoadedDocument(u, fails) == IF fails THEN NoSnapshot ELSE remoteDoc[u]

(* loadTimerStateFirebase(u) resolves, with the document or (on an error *)
(* or a missing document) with null, and loadFirebaseState continues     *)
LoadResolved(u, fails) ==
  LET firebaseState == LoadedDocument(u, fails)
      localState == localStorage
      adopts == /\ firebaseState # NoSnapshot
                /\ \/ localState = NoSnapshot
                   \/ firebaseState[1].savedAt > localState[1].savedAt
      restoredState == calculateRestoredState(firebaseState[1], now)
  IN  /\ u \in pendingLoads
      /\ IF adopts
         THEN /\ restoredState.totalSeconds <= MaxRestoredSeconds
              /\ Commit(RunEffects(
                     [Component EXCEPT
                        !.ts = TimerState(restoredState.totalSeconds,
                                          restoredState.isRunning,
                                          restoredState.status,
                                          restoredState.currentPhaseIndex),
                        !.has = TRUE,
                        !.rref = restoredState.activePresetId,
                        !.local = <<restoredState>>,
                        !.writes = {Written("local", restoredState, now)},
                        !.pending = @ \ {u}],
                     Changed(FALSE, FALSE, FALSE, ~hasRestoredState, TRUE,
                             restoredState.isRunning # timerState.isRunning),
                     now))
         ELSE Commit([Component EXCEPT !.pending = @ \ {u}])
      /\ UNCHANGED <<now, initialPhaseIndex>>

(* What another device of the account can have saved: half a minute left *)
(* of the first phase of "p1", paused                                    *)
OtherDeviceSnapshots ==
  {createPersistedState(SecondsPerMinute \div 2, 0, "paused", "p1", FALSE, t) :
     t \in ClockValues}

(* saveTimerStateFirebase on another device of account u *)
RemoteChange(u, snapshot) ==
  /\ remoteDoc[u] # <<snapshot>>
  /\ remoteDoc' = [remoteDoc EXCEPT ![u] = <<snapshot>>]
  /\ remoteOps' = {}
  /\ writes' = {}
  /\ UNCHANGED <<timerState, presets, activePresetId, user, hasRestoredState,
                 restoredPresetIdRef, intervalRef, liveTimers, localStorage,
                 syncTimerState, pendingLoads, remoteFails, now,
                 initialPhaseIndex>>

(* The remote service becomes unreachable for this device, or reachable *)
RemoteAvailability(fails) ==
  /\ fails # remoteFails
  /\ remoteFails' = fails
  /\ remoteOps' = {}
  /\ writes' = {}
  /\ UNCHANGED <<timerState, presets, activePresetId, user, hasRestoredState,
                 restoredPresetIdRef, intervalRef, liveTimers, localStorage,
                 syncTimerState, remoteDoc, pendingLoads, now,
                 initialPhaseIndex>>

SyncPresetSnapshots == {{}, {PresetDoc("p1", <<1>>, FALSE, Undefined, Undefined)}}

NextSync ==
  \/ start /\ NoHistory
  \/ pause /\ NoHistory
  \/ reset /\ NoHistory
  \/ \E u \in SyncUsers : SignIn(u) /\ NoHistory
  \/ SignOut /\ NoHistory
  \/ \E u \in SyncUsers : SwitchUser(u) /\ NoHistory
  \/ \E docs \in SyncPresetSnapshots : PresetsSnapshot(docs) /\ NoHistory
  \/ \E id \in {NoPresetId, "p1"}, sync \in BOOLEAN :
        UserSettingsSnapshot(id, sync) /\ NoHistory
  \/ \E u \in SyncUsers : LoadResolved(u, remoteFails) /\ NoHistory
  \/ \E u \in SyncUsers, snapshot \in {d \in OtherDeviceSnapshots : d.savedAt > now} :
        RemoteChange(u, snapshot) /\ NoHistory
  \/ \E fails \in BOOLEAN : RemoteAvailability(fails) /\ NoHistory

SpecSync == Init /\ [][NextSync]_vars

-----------------------------------------------------------------------------
(* One page load and what follows it: the component is constructed over  *)
(* a slot an earlier session left and remote documents other devices     *)
(* left, and the user, the presets and the settings arrive afterwards.   *)

(* An earlier session on "p1" or on no preset, saved at time 0 with the  *)
(* first phase untouched                                                 *)
BootSlots ==
  {NoSnapshot} \cup
  {<<createPersistedState(SecondsPerMinute, 0, status, pid, status = "running", 0)>> :
     status \in Statuses \ {"completed"}, pid \in {"p1", NoPresetId}}

(* Account "u1" may have used another device, account "u2" has not *)
BootRemoteDocs ==
  {[u \in SyncUsers |-> IF u = "u1" THEN doc ELSE NoSnapshot] :
     doc \in {NoSnapshot} \cup {<<d>> : d \in OtherDeviceSnapshots}}

(* How far the boot has come after a snapshot: it is over once the       *)
(* active preset id changes a second time; it has settled when the       *)
(* active preset is known                                                *)
BootAfterSnapshot ==
  IF boot.phase # "loading"
       \/ (activePresetId # NoPresetId /\ activePresetId' # activePresetId)
  THEN "over"
  ELSE IF ActivePreset(presets', activePresetId') # NoPreset
       THEN "active"
       ELSE "loading"

History(phase) ==
  /\ UNCHANGED <<lastOp, ticksSinceStart, restoredSnapshot, editorPhases, tracker>>
  /\ boot' = [boot EXCEPT !.phase = phase]

InitBoot ==
  \E slot \in BootSlots, remote \in BootRemoteDocs, t \in ClockValues,
     u \in SyncUsers \cup {NoUser} :
    LET c == Mount(slot, t, u, remote)
    IN  /\ remoteFails = FALSE
        /\ editorPhases = <<>>
        /\ tracker = NoTracker
        /\ timerState = c.ts
        /\ presets = c.presets
        /\ activePresetId = c.pid
        /\ user = c.user
        /\ hasRestoredState = c.has
        /\ restoredPresetIdRef = c.rref
        /\ initialPhaseIndex = getInitialTimerState(slot, t).state.currentPhaseIndex
        /\ intervalRef = c.iref
        /\ liveTimers = c.timers
        /\ localStorage = c.local
        /\ syncTimerState = c.sync
        /\ remoteDoc = c.remote
        /\ pendingLoads = c.pending
        /\ remoteOps = c.ops
        /\ writes = c.writes
        /\ now = t
        /\ lastOp = [op |-> "mount", status |-> c.ts.status,
                     zero |-> c.ts.totalSeconds = 0, arg |-> <<>>]
        /\ ticksSinceStart = -1
        /\ restoredSnapshot = <<>>
        /\ boot = [local |-> slot, remote |-> remote, phase |-> "loading"]

NextBoot ==
  \/ \E u \in SyncUsers : SignIn(u) /\ History(boot.phase)
  \/ \E u \in SyncUsers : SwitchUser(u) /\ History("over")
  \/ \E docs \in SyncPresetSnapshots :
        PresetsSnapshot(docs) /\ History(BootAfterSnapshot)
  \/ \E id \in {NoPresetId, "p1"}, sync \in BOOLEAN :
        UserSettingsSnapshot(id, sync) /\ History(BootAfterSnapshot)
  \/ \E u \in SyncUsers, fails \in BOOLEAN :
        LoadResolved(u, fails) /\ History(boot.phase)

SpecBoot == InitBoot /\ [][NextBoot]_vars

-----------------------------------------------------------------------------
(* The countdown left alone: the timer has been started on an activated  *)
(* preset and from then on only the interval fires.  setInterval calls   *)
(* its callback again and again for as long as the interval is set.      *)

(* The component on the activated preset ap, before start() *)
EngineComponent(ap) ==
  [ts |-> InitializedState(ap), presets |-> {ap}, pid |-> ap.id, user |-> "u1",
   has |-> FALSE, rref |-> NoPresetId, iref |-> FALSE, timers |-> 0,
   local |-> <<createPersistedState(InitializedState(ap).totalSeconds, 0, "idle",
                                    ap.id, FALSE, 0)>>,
   sync |-> FALSE, sref |-> FALSE, remote |-> NoRemoteDocs, pending |-> {},
   ops |-> {}, writes |-> {}, down |-> FALSE]

(* The component after start() on the activated preset ap *)
StartedComponent(ap) ==
  RunEffects([EngineComponent(ap) EXCEPT
                !.ts = StartUpdate(InitializedState(ap), ap)],
             Changed(FALSE, FALSE, FALSE, FALSE, TRUE, TRUE), 0)

InitCountdown ==
  \E ap \in EnginePresets :
    LET c == StartedComponent(ap)
    IN  /\ timerState = c.ts
        /\ presets = c.presets
        /\ activePresetId = c.pid
        /\ user = c.user
        /\ hasRestoredState = c.has
        /\ restoredPresetIdRef = c.rref
        /\ initialPhaseIndex = 0
        /\ intervalRef = c.iref
        /\ liveTimers = c.timers
        /\ localStorage = c.local
        /\ syncTimerState = c.sync
        /\ remoteDoc = c.remote
        /\ pendingLoads = c.pending
        /\ remoteOps = c.ops
        /\ writes = c.writes
        /\ remoteFails = c.down
        /\ editorPhases = <<>>
        /\ tracker = NoTracker
        /\ now = 0
        /\ lastOp = [op |-> "start", status |-> "idle", zero |-> FALSE,
                     arg |-> <<>>]
        /\ ticksSinceStart = -1
        /\ restoredSnapshot = <<>>
        /\ boot = NoBoot

NextCountdown == tick /\ NoHistory

SpecCountdown ==
  InitCountdown /\ [][NextCountdown]_vars /\ WF_vars(NextCountdown)

-----------------------------------------------------------------------------
(* src/components/PhaseListEditor/PhaseListEditor.tsx: the phase list of *)
(* the preset form.  A phase is its id and its order; the list starts as *)
(* createDefaultPhases() or as the phases of a migrated preset.          *)

Phase(id, order) == [id |-> id, order |-> order]

PhaseIds == 1..MaxEditorPhases

(* generatePhaseId(): an id no phase of the list has *)
generatePhaseId(phases) ==
  CHOOSE id \in PhaseIds :
    /\ \A i \in 1..Len(phases) : phases[i].id # id
    /\ \A other \in PhaseIds :
         (\A i \in 1..Len(phases) : phases[i].id # other) => id <= other

(* createDefaultPhases(), with the order fields *)
DefaultPhaseList == <<Phase(1, 0), Phase(2, 1)>>

(* migratePreset on a document without phases, with the order fields: *)
(* the Work phase has order 0, the Break phase order 1                *)
MigratedPhaseList(doc) ==
  LET work == IF doc.workMinutes # Undefined THEN <<Phase(1, 0)>> ELSE <<>>
      brk  == IF doc.breakMinutes # Undefined
              THEN <<Phase(Len(work) + 1, 1)>> ELSE <<>>
      phases == work \o brk
  IN  IF Len(phases) = 0 THEN DefaultPhaseList ELSE phases

(* The legacy documents: workMinutes and breakMinutes each set or not *)
LegacyDocs ==
  {PresetDoc("p1", <<>>, FALSE, work, brk) :
     work \in {Undefined, <<1>>}, brk \in {Undefined, <<1>>}}

(* phases.findIndex((p) => p.id === id), one-based; 0 when none has it *)
FindIndex(phases, id) ==
  IF \E i \in 1..Len(phases) : phases[i].id = id
  THEN CHOOSE i \in 1..Len(phases) : phases[i].id = id
  ELSE 0

(* arrayMove of @dnd-kit/sortable, one-based: the element at from is *)
(* taken out and put in at to                                        *)
arrayMove(array, from, to) ==
  LET without == [i \in 1..(Len(array) - 1) |->
                    IF i < from THEN array[i] ELSE array[i + 1]]
  IN  [i \in 1..Len(array) |->
         IF i < to THEN without[i]
         ELSE IF i = to THEN array[from]
         ELSE without[i - 1]]

(* .map((phase, index) => ({ ...phase, order: index })) *)
Renumbered(phases) ==
  [i \in 1..Len(phases) |-> Phase(phases[i].id, i - 1)]

handleDragEnd(active, over) ==
  /\ active # over
  /\ FindIndex(editorPhases, active) # 0
  /\ FindIndex(editorPhases, over) # 0
  /\ editorPhases' = Renumbered(arrayMove(editorPhases,
                                          FindIndex(editorPhases, active),
                                          FindIndex(editorPhases, over)))

handleAddPhase ==
  /\ Len(editorPhases) < MaxEditorPhases
  /\ editorPhases' =
       Append(editorPhases, Phase(generatePhaseId(editorPhases), Len(editorPhases)))

handleDeletePhase(id) ==
  /\ Len(editorPhases) > 1
  /\ FindIndex(editorPhases, id) # 0
  /\ editorPhases' =
       Renumbered(SelectSeq(editorPhases, LAMBDA phase : phase.id # id))

InitEditor ==
  /\ timerState = DefaultTimerState
  /\ presets = {}
  /\ activePresetId = NoPresetId
  /\ user = NoUser
  /\ hasRestoredState = FALSE
  /\ restoredPresetIdRef = NoPresetId
  /\ initialPhaseIndex = 0
  /\ intervalRef = FALSE
  /\ liveTimers = 0
  /\ localStorage = NoSnapshot
  /\ now = 0
  /\ lastOp = [op |-> "mount", status |-> "idle", zero |-> TRUE, arg |-> <<>>]
  /\ ticksSinceStart = -1
  /\ restoredSnapshot = <<>>
  /\ SyncOff
  /\ boot = NoBoot
  /\ editorPhases \in {DefaultPhaseList} \cup {MigratedPhaseList(doc) : doc \in LegacyDocs}
  /\ tracker = NoTracker

(* The preset form does not touch the timer *)
EditorOnly ==
  UNCHANGED <<componentVars, now, initialPhaseIndex, lastOp, ticksSinceStart,
              restoredSnapshot, boot, tracker>>

NextEditor ==
  \/ \E active \in PhaseIds, over \in PhaseIds :
        handleDragEnd(active, over) /\ EditorOnly
  \/ handleAddPhase /\ EditorOnly
  \/ \E id \in PhaseIds : handleDeletePhase(id) /\ EditorOnly

SpecEditor == InitEditor /\ [][NextEditor]_vars

-----------------------------------------------------------------------------
(* src/hooks/useTimeTracker.ts: the session of the signed-in user.  The   *)
(* refs are fields of tracker; sessionId records whether the ref holds an *)
(* id; updating and incrementing count the saveSession calls waiting at   *)
(* their first and second await; passed is the sum of the increments      *)
(* handed to incrementLeaderboardStats; clock is Date.now().              *)

SAVE_INTERVAL == 30000

MaxTrackerClockSteps == 3
TrackerClockStep == 15000
MaxPendingSaves == 2

(* The most seconds a session can have counted when the clock stops *)
MaxElapsedSeconds == (MaxTrackerClockSteps * TrackerClockStep) \div MsPerSecond

(* tick() *)
Ticked(tr) ==
  IF ~tr.isActive
  THEN tr
  ELSE LET delta == (tr.clock - tr.lastTick) \div MsPerSecond
       IN  IF delta > 0
           THEN [tr EXCEPT !.elapsedSeconds = @ + delta, !.lastTick = tr.clock]
           ELSE tr

(* saveSession() of a signed-in user up to its first await *)
saveSession(tr) ==
  IF ~tr.sessionId \/ tr.elapsedSeconds = 0
  THEN tr
  ELSE [tr EXCEPT !.updating = @ + 1]

(* Room for one more saveSession call in flight *)
CanSave == tracker.updating + tracker.incrementing < MaxPendingSaves

(* The effect with a user: startSession() up to its await, the intervals *)
(* and the listeners                                                     *)
StartedTracker ==
  [NoTracker EXCEPT !.mounted = TRUE, !.recording = TRUE, !.isActive = TRUE,
                    !.nextSave = SAVE_INTERVAL]

(* recordSession resolves with the new session's id *)
RecordResolved ==
  /\ tracker.recording
  /\ tracker' = [tracker EXCEPT !.recording = FALSE, !.sessionId = TRUE]

(* recordSession rejects *)
RecordRejected ==
  /\ tracker.recording
  /\ tracker' = [tracker EXCEPT !.recording = FALSE]

(* Time passes *)
TrackerTimePasses ==
  /\ tracker.clock < MaxTrackerClockSteps * TrackerClockStep
  /\ tracker' = [tracker EXCEPT !.clock = @ + TrackerClockStep]

(* setInterval(tick, 1000) fires *)
TickInterval ==
  /\ tracker.mounted
  /\ tracker' = Ticked(tracker)

(* The save interval fires *)
SaveInterval ==
  /\ tracker.mounted
  /\ tracker.clock >= tracker.nextSave
  /\ CanSave
  /\ tracker' = [saveSession(Ticked(tracker)) EXCEPT !.nextSave = @ + SAVE_INTERVAL]

handleVisibilityChange(hidden) ==
  /\ tracker.mounted
  /\ tracker.hidden # hidden
  /\ CanSave
  /\ tracker' =
       IF hidden
       THEN [saveSession([Ticked(tracker) EXCEPT !.isActive = FALSE])
               EXCEPT !.hidden = TRUE]
       ELSE [tracker EXCEPT !.isActive = TRUE, !.lastTick = tracker.clock,
                            !.hidden = FALSE]

handleBeforeUnload ==
  /\ tracker.mounted
  /\ CanSave
  /\ tracker' =
       LET tr == Ticked(tracker)
       IN  IF tr.sessionId /\ tr.elapsedSeconds > 0 THEN saveSession(tr) ELSE tr

(* The effect's cleanup *)
TrackerCleanup ==
  /\ tracker.mounted
  /\ CanSave
  /\ tracker' = [saveSession(Ticked(tracker)) EXCEPT !.mounted = FALSE]

(* updateSessionDuration resolves: saveSession goes on to its second await *)
UpdateResolved ==
  /\ tracker.updating > 0
  /\ tracker.passed <= MaxElapsedSeconds
  /\ tracker' =
       LET increment == tracker.elapsedSeconds - tracker.lastSavedSeconds
       IN  IF increment > 0
           THEN [tracker EXCEPT !.updating = @ - 1, !.incrementing = @ + 1,
                                !.passed = @ + increment]
           ELSE [tracker EXCEPT !.updating = @ - 1]

(* updateSessionDuration rejects: the catch block *)
UpdateRejected ==
  /\ tracker.updating > 0
  /\ tracker' = [tracker EXCEPT !.updating = @ - 1]

(* incrementLeaderboardStats resolves *)
IncrementResolved ==
  /\ tracker.incrementing > 0
  /\ tracker' = [tracker EXCEPT !.incrementing = @ - 1,
                                !.lastSavedSeconds = tracker.elapsedSeconds]

(* incrementLeaderboardStats rejects: the catch block *)
IncrementRejected ==
  /\ tracker.incrementing > 0
  /\ tracker' = [tracker EXCEPT !.incrementing = @ - 1]

InitTracker ==
  /\ timerState = DefaultTimerState
  /\ presets = {}
  /\ activePresetId = NoPresetId
  /\ user = "u1"
  /\ hasRestoredState = FALSE
  /\ restoredPresetIdRef = NoPresetId
  /\ initialPhaseIndex = 0
  /\ intervalRef = FALSE
  /\ liveTimers = 0
  /\ localStorage = NoSnapshot
  /\ now = 0
  /\ lastOp = [op |-> "mount", status |-> "idle", zero |-> TRUE, arg |-> <<>>]
  /\ ticksSinceStart = -1
  /\ restoredSnapshot = <<>>
  /\ SyncOff
  /\ boot = NoBoot
  /\ editorPhases = <<>>
  /\ tracker = StartedTracker

(* The time tracker does not touch the timer *)
TrackerOnly ==
  UNCHANGED <<componentVars, now, initialPhaseIndex, lastOp, ticksSinceStart,
              restoredSnapshot, boot, editorPhases>>

NextTracker ==
  \/ RecordResolved /\ TrackerOnly
  \/ RecordRejected /\ TrackerOnly
  \/ TrackerTimePasses /\ TrackerOnly
  \/ TickInterval /\ TrackerOnly
  \/ SaveInterval /\ TrackerOnly
  \/ \E hidden \in BOOLEAN : handleVisibilityChange(hidden) /\ TrackerOnly
  \/ handleBeforeUnload /\ TrackerOnly
  \/ TrackerCleanup /\ TrackerOnly
  \/ UpdateResolved /\ TrackerOnly
  \/ UpdateRejected /\ TrackerOnly
  \/ IncrementResolved /\ TrackerOnly
  \/ IncrementRejected /\ TrackerOnly

SpecTracker == InitTracker /\ [][NextTracker]_vars

-----------------------------------------------------------------------------
(* Properties *)

TheActivePreset == ActivePreset(presets, activePresetId)

(* C1: in every reachable state of the whole component, isRunning implies *)
(* status "running", and status "completed" implies totalSeconds = 0 and  *)
(* isRunning = FALSE.                                                     *)
C1_RunningAndCompleted ==
  /\ timerState.isRunning => timerState.status = "running"
  /\ timerState.status = "completed" =>
       timerState.totalSeconds = 0 /\ ~timerState.isRunning

(* The engine ran to completion in a component that was constructed from *)
(* a snapshot saved for the preset now active.                           *)
C1_Witness ==
  /\ timerState.status = "completed"
  /\ activePresetId # NoPresetId
  /\ restoredPresetIdRef = activePresetId

(* C2: whenever the active preset has at least one phase, the phase index *)
(* is within its phase list, also when the component was constructed from *)
(* a snapshot for that preset whose index the list no longer has.         *)
C2_PhaseIndexInRange ==
  ~NoPhases(TheActivePreset) =>
    /\ 0 <= timerState.currentPhaseIndex
    /\ timerState.currentPhaseIndex < Len(TheActivePreset.phases)

(* The snapshot restored at construction was for the active preset and   *)
(* its phase index is beyond the preset's present phase list.            *)
C2_Witness ==
  /\ ~NoPhases(TheActivePreset)
  /\ restoredPresetIdRef = activePresetId
  /\ initialPhaseIndex >= Len(TheActivePreset.phases)

(* C3: a tick of a running engine with totalSeconds > 1 takes exactly one *)
(* second off and leaves isRunning, status and the phase index alone;     *)
(* totalSeconds is never negative.                                        *)
C3_TickDecrements ==
  /\ [](timerState.totalSeconds >= 0)
  /\ [][(tick /\ timerState.isRunning /\ timerState.totalSeconds > 1) =>
          /\ timerState'.totalSeconds = timerState.totalSeconds - 1
          /\ timerState'.isRunning = timerState.isRunning
          /\ timerState'.status = timerState.status
          /\ timerState'.currentPhaseIndex = timerState.currentPhaseIndex]_vars

(* A running engine one second into its second phase: only a tick puts it there *)
C3_Witness ==
  /\ timerState.isRunning
  /\ timerState.currentPhaseIndex = 1
  /\ ~NoPhases(TheActivePreset)
  /\ timerState.totalSeconds = PhaseSeconds(TheActivePreset, 1) - 1

(* Seconds of the first k phases of a preset *)
RECURSIVE SecondsOfFirst(_, _)
SecondsOfFirst(ap, k) ==
  IF k = 0 THEN 0
  ELSE SecondsOfFirst(ap, k - 1) + ap.phases[k] * SecondsPerMinute

(* C4: on a preset that does not loop, after start() from idle and ticks  *)
(* only, the engine stands at phase k+1 with that phase's full duration,  *)
(* running, once the seconds of phases 0..k have been ticked; it is       *)
(* completed, at 0 and stopped after the seconds of all phases, and not   *)
(* before.                                                                *)
C4_PhaseAdvance ==
  (ticksSinceStart >= 0 /\ ~TheActivePreset.loopPhases) =>
    LET phases == TheActivePreset.phases
        n == Len(phases)
    IN  /\ \A k \in 0..(n - 2) :
             ticksSinceStart = SecondsOfFirst(TheActivePreset, k + 1) =>
               /\ timerState.currentPhaseIndex = k + 1
               /\ timerState.totalSeconds = phases[k + 2] * SecondsPerMinute
               /\ timerState.isRunning
               /\ timerState.status = "running"
        /\ ticksSinceStart = SecondsOfFirst(TheActivePreset, n) =>
             /\ timerState.status = "completed"
             /\ timerState.totalSeconds = 0
             /\ ~timerState.isRunning
        /\ ticksSinceStart < SecondsOfFirst(TheActivePreset, n) =>
             timerState.status # "completed"
        /\ ticksSinceStart <= SecondsOfFirst(TheActivePreset, n)

(* A preset of several phases of different durations ticked to its end *)
C4_Witness ==
  /\ ticksSinceStart = SecondsOfFirst(TheActivePreset, Len(TheActivePreset.phases))
  /\ Len(TheActivePreset.phases) >= 2
  /\ TheActivePreset.phases[1] # TheActivePreset.phases[2]
  /\ timerState.status = "completed"

(* C5: on a looping preset a tick at the boundary of the last phase wraps *)
(* to phase 0 with its full duration and keeps the engine running, and no *)
(* tick ever completes the engine.                                        *)
C5_LoopWraps ==
  [][(lastOp'.op = "tick" /\ TheActivePreset.loopPhases) =>
       /\ timerState'.status # "completed"
       /\ (timerState.totalSeconds <= 1
           /\ timerState.currentPhaseIndex = Len(TheActivePreset.phases) - 1) =>
            /\ timerState'.currentPhaseIndex = 0
            /\ timerState'.totalSeconds =
                 TheActivePreset.phases[1] * SecondsPerMinute
            /\ timerState'.isRunning
            /\ timerState'.status = "running"]_vars

(* A tick has just wrapped a looping preset of several phases *)
C5_Witness ==
  /\ lastOp.op = "tick"
  /\ TheActivePreset.loopPhases
  /\ Len(TheActivePreset.phases) >= 2
  /\ timerState.currentPhaseIndex = 0
  /\ timerState.totalSeconds = TheActivePreset.phases[1] * SecondsPerMinute

(* C6: start() in status idle or completed puts the engine at phase 0     *)
(* with its full duration, running, whatever index and seconds it had.    *)
C6_StartFromIdleOrCompleted ==
  [][(lastOp'.op = "start" /\ timerState.status \in {"idle", "completed"}) =>
       /\ timerState'.currentPhaseIndex = 0
       /\ timerState'.totalSeconds = TheActivePreset.phases[1] * SecondsPerMinute
       /\ timerState'.isRunning
       /\ timerState'.status = "running"]_vars

(* start() has restarted an engine that had completed a preset of several phases *)
C6_Witness ==
  /\ lastOp.op = "start"
  /\ lastOp.status = "completed"
  /\ Len(TheActivePreset.phases) >= 2
  /\ timerState.currentPhaseIndex = 0
  /\ timerState.isRunning

(* C7: start() in status paused or running resumes in place when          *)
(* totalSeconds > 0 and refills the current phase, keeping the index,     *)
(* when totalSeconds = 0; the engine never starts running at 0.           *)
C7_StartResumesOrRefills ==
  [][(lastOp'.op = "start" /\ timerState.status \in {"paused", "running"}) =>
       /\ timerState'.currentPhaseIndex = timerState.currentPhaseIndex
       /\ timerState'.isRunning
       /\ timerState'.status = "running"
       /\ timerState'.totalSeconds > 0
       /\ timerState'.totalSeconds =
            IF timerState.totalSeconds > 0
            THEN timerState.totalSeconds
            ELSE TheActivePreset.phases[timerState.currentPhaseIndex + 1]
                   * SecondsPerMinute]_vars

(* start() has refilled a later phase that stood paused at 0 *)
C7_Witness ==
  /\ lastOp.op = "start"
  /\ lastOp.status = "paused"
  /\ lastOp.zero
  /\ timerState.currentPhaseIndex > 0
  /\ timerState.isRunning
  /\ timerState.totalSeconds > 0

(* C8: pause() leaves the whole timer state unchanged when the engine is  *)
(* not running, sets isRunning = FALSE and status "paused" when it is,    *)
(* and never changes totalSeconds or the phase index.                     *)
C8_PauseNoOpWhenStopped ==
  [][(lastOp'.op = "pause") =>
       /\ timerState'.totalSeconds = timerState.totalSeconds
       /\ timerState'.currentPhaseIndex = timerState.currentPhaseIndex
       /\ IF timerState.isRunning
          THEN ~timerState'.isRunning /\ timerState'.status = "paused"
          ELSE timerState' = timerState]_vars

(* C9: reset() puts the engine at phase 0 with its full duration, stopped *)
(* and idle, from every state.                                            *)
C9_Reset ==
  [][(lastOp'.op = "reset") =>
       /\ timerState'.currentPhaseIndex = 0
       /\ timerState'.totalSeconds = TheActivePreset.phases[1] * SecondsPerMinute
       /\ ~timerState'.isRunning
       /\ timerState'.status = "idle"]_vars

(* reset() has run on an engine that was running in a later phase: the   *)
(* snapshot saved before it still shows that phase                       *)
C9_Witness ==
  /\ lastOp.op = "reset"
  /\ lastOp.status = "running"
  /\ timerState.status = "idle"
  /\ Len(TheActivePreset.phases) >= 2

(* C10: skipToNextPhase() moves to the next phase with its full duration, *)
(* stopped and paused; from the last phase of a looping preset it moves   *)
(* to phase 0 likewise; from the last phase of a preset that does not     *)
(* loop it leaves the whole timer state unchanged.                        *)
C10_SkipToNextPhase ==
  [][(lastOp'.op = "skipToNextPhase") =>
       LET phases == TheActivePreset.phases
           nextIndex == timerState.currentPhaseIndex + 1
       IN  IF nextIndex < Len(phases)
           THEN /\ timerState'.currentPhaseIndex = nextIndex
                /\ timerState'.totalSeconds = phases[nextIndex + 1] * SecondsPerMinute
                /\ ~timerState'.isRunning
                /\ timerState'.status = "paused"
           ELSE IF TheActivePreset.loopPhases
           THEN /\ timerState'.currentPhaseIndex = 0
                /\ timerState'.totalSeconds = phases[1] * SecondsPerMinute
                /\ ~timerState'.isRunning
                /\ timerState'.status = "paused"
           ELSE timerState' = timerState]_vars

(* skipToNextPhase() has run on an engine running in the last phase of a *)
(* preset that does not loop, and the engine is still running            *)
C10_Witness ==
  /\ lastOp.op = "skipToNextPhase"
  /\ lastOp.status = "running"
  /\ ~TheActivePreset.loopPhases
  /\ Len(TheActivePreset.phases) >= 2
  /\ timerState.currentPhaseIndex = Len(TheActivePreset.phases) - 1
  /\ timerState.isRunning

(* C11: skipToPreviousPhase() moves to the previous phase with its full   *)
(* duration, stopped and paused; from phase 0 of a looping preset it      *)
(* moves to the last phase likewise; from phase 0 of a preset that does   *)
(* not loop it leaves the whole timer state unchanged.                    *)
C11_SkipToPreviousPhase ==
  [][(lastOp'.op = "skipToPreviousPhase") =>
       LET phases == TheActivePreset.phases
           prevIndex == timerState.currentPhaseIndex - 1
           last == Len(phases) - 1
       IN  IF prevIndex >= 0
           THEN /\ timerState'.currentPhaseIndex = prevIndex
                /\ timerState'.totalSeconds = phases[prevIndex + 1] * SecondsPerMinute
                /\ ~timerState'.isRunning
                /\ timerState'.status = "paused"
           ELSE IF TheActivePreset.loopPhases
           THEN /\ timerState'.currentPhaseIndex = last
                /\ timerState'.totalSeconds = phases[last + 1] * SecondsPerMinute
                /\ ~timerState'.isRunning
                /\ timerState'.status = "paused"
           ELSE timerState' = timerState]_vars

(* skipToPreviousPhase() has wrapped a running engine from phase 0 to the *)
(* last phase of a looping preset whose phases differ in duration         *)
C11_Witness ==
  /\ lastOp.op = "skipToPreviousPhase"
  /\ lastOp.status = "running"
  /\ TheActivePreset.loopPhases
  /\ Len(TheActivePreset.phases) >= 2
  /\ TheActivePreset.phases[1] # TheActivePreset.phases[Len(TheActivePreset.phases)]
  /\ timerState.currentPhaseIndex = Len(TheActivePreset.phases) - 1
  /\ timerState.status = "paused"

C13_GuardedControls ==
  [][(/\ lastOp'.op \in {"start", "reset", "skipToNextPhase", "skipToPreviousPhase"}
      /\ (TheActivePreset = NoPreset \/ Len(TheActivePreset.phases) = 0)) =>
       timerState' = timerState]_vars

(* reset() was called, with no preset active, on an engine that pause()   *)
(* had put into status paused, and the engine is still paused             *)
C13_Witness ==
  /\ lastOp.op = "reset"
  /\ lastOp.status = "paused"
  /\ TheActivePreset = NoPreset
  /\ timerState.status = "paused"

(* C14: in every reachable state of the whole component at most one tick  *)
(* interval is set, and none is set while the engine is not running.      *)
C14_OneTickTimer ==
  /\ liveTimers <= 1
  /\ liveTimers > 0 => timerState.isRunning

(* The engine runs in a later phase of a looping preset that was activated *)
(* after a reload, with its one interval set                               *)
C14_Witness ==
  /\ liveTimers = 1
  /\ intervalRef
  /\ timerState.isRunning
  /\ timerState.currentPhaseIndex > 0
  /\ TheActivePreset.loopPhases
  /\ now > 0

(* The snapshot calculateRestoredState was called with, and its result *)
SavedSnapshot == localStorage[1]

ReconciledSnapshot == restoredSnapshot[1]

(* floor((now - savedAt) / 1000) *)
ElapsedSinceSave == (now - SavedSnapshot.savedAt) \div MsPerSecond

(* C15: reconciliation returns a snapshot with isRunning = FALSE or a      *)
(* status other than "running" unchanged in every field, savedAt          *)
(* included, whatever the clock reads.                                    *)
C15_ReconcileNotRunning ==
  (/\ restoredSnapshot # <<>>
   /\ (~SavedSnapshot.isRunning \/ SavedSnapshot.status # "running")) =>
     /\ ReconciledSnapshot.totalSeconds = SavedSnapshot.totalSeconds
     /\ ReconciledSnapshot.currentPhaseIndex = SavedSnapshot.currentPhaseIndex
     /\ ReconciledSnapshot.status = SavedSnapshot.status
     /\ ReconciledSnapshot.activePresetId = SavedSnapshot.activePresetId
     /\ ReconciledSnapshot.isRunning = SavedSnapshot.isRunning
     /\ ReconciledSnapshot.savedAt = SavedSnapshot.savedAt

(* A paused snapshot with seconds left was reconciled seconds after its save *)
C15_Witness ==
  /\ restoredSnapshot # <<>>
  /\ SavedSnapshot.status = "paused"
  /\ ~SavedSnapshot.isRunning
  /\ SavedSnapshot.totalSeconds > 0
  /\ ElapsedSinceSave > SavedSnapshot.totalSeconds
  /\ ReconciledSnapshot = SavedSnapshot

(* C16: reconciliation of a running snapshot whose elapsed seconds are    *)
(* fewer than its totalSeconds returns totalSeconds minus the elapsed     *)
(* seconds, still running, stamped with the present time, with phase      *)
(* index and preset id unchanged.                                         *)
C16_ReconcileWithinBudget ==
  (/\ restoredSnapshot # <<>>
   /\ SavedSnapshot.isRunning
   /\ SavedSnapshot.status = "running"
   /\ ElapsedSinceSave < SavedSnapshot.totalSeconds) =>
     /\ ReconciledSnapshot.totalSeconds = SavedSnapshot.totalSeconds - ElapsedSinceSave
     /\ ReconciledSnapshot.isRunning
     /\ ReconciledSnapshot.status = "running"
     /\ ReconciledSnapshot.savedAt = now
     /\ ReconciledSnapshot.currentPhaseIndex = SavedSnapshot.currentPhaseIndex
     /\ ReconciledSnapshot.activePresetId = SavedSnapshot.activePresetId

(* A running snapshot was reconciled a second and a half after its save,  *)
(* with seconds to spare                                                  *)
C16_Witness ==
  /\ restoredSnapshot # <<>>
  /\ SavedSnapshot.isRunning
  /\ SavedSnapshot.status = "running"
  /\ now - SavedSnapshot.savedAt > MsPerSecond
  /\ ElapsedSinceSave = 1
  /\ ReconciledSnapshot.totalSeconds = SavedSnapshot.totalSeconds - 1
  /\ ReconciledSnapshot.totalSeconds > 0

(* C17: reconciliation of a running snapshot whose elapsed seconds reach  *)
(* its totalSeconds returns totalSeconds 0, not running, status "paused", *)
(* stamped with the present time, with phase index and preset id          *)
(* unchanged.                                                             *)
C17_ReconcileExpired ==
  (/\ restoredSnapshot # <<>>
   /\ SavedSnapshot.isRunning
   /\ SavedSnapshot.status = "running"
   /\ ElapsedSinceSave >= SavedSnapshot.totalSeconds) =>
     /\ ReconciledSnapshot.totalSeconds = 0
     /\ ~ReconciledSnapshot.isRunning
     /\ ReconciledSnapshot.status = "paused"
     /\ ReconciledSnapshot.savedAt = now
     /\ ReconciledSnapshot.currentPhaseIndex = SavedSnapshot.currentPhaseIndex
     /\ ReconciledSnapshot.activePresetId = SavedSnapshot.activePresetId

(* A running snapshot in its first phase was reconciled after more        *)
(* seconds than it had left                                               *)
C17_Witness ==
  /\ restoredSnapshot # <<>>
  /\ SavedSnapshot.isRunning
  /\ SavedSnapshot.status = "running"
  /\ SavedSnapshot.totalSeconds > 0
  /\ SavedSnapshot.currentPhaseIndex = 0
  /\ ElapsedSinceSave > SavedSnapshot.totalSeconds
  /\ ReconciledSnapshot.status = "paused"

(* What the page load read from the slot, as of now *)
BootRestored == getInitialTimerState(boot.local, now)

(* The remote document of the user at the page load, reconciled as of now *)
BootRemoteReconciled == calculateRestoredState(boot.remote[user][1], now)

(* C18: when the page has booted for a signed-in user with sync enabled, *)
(* over a Local snapshot saved at T1 and a Remote snapshot of the active *)
(* preset saved at T2 > T1 with other remaining seconds, and no remote   *)
(* load is outstanding, the timer state holds the reconciled Remote      *)
(* values.                                                               *)
C18_RemotePrecedence ==
  ( /\ boot.phase = "active"
    /\ user # NoUser
    /\ syncTimerState
    /\ pendingLoads = {}
    /\ boot.local # NoSnapshot
    /\ boot.remote[user] # NoSnapshot
    /\ boot.remote[user][1].savedAt > boot.local[1].savedAt
    /\ boot.remote[user][1].totalSeconds # boot.local[1].totalSeconds
    /\ boot.remote[user][1].activePresetId = activePresetId )
  => timerState = TimerState(BootRemoteReconciled.totalSeconds,
                             BootRemoteReconciled.isRunning,
                             BootRemoteReconciled.status,
                             BootRemoteReconciled.currentPhaseIndex)

(* C19: every remote read or write the component issues is issued for a  *)
(* signed-in user while the component holds the sync preference enabled. *)
C19_NoRemoteWithoutUserOrSync ==
  \A op \in remoteOps : op.user # NoUser /\ op.sync

(* A user with sync disabled started the timer: the slot has the running *)
(* state, the remote document written earlier has not, nothing is issued *)
C19_Witness ==
  /\ user # NoUser
  /\ ~syncTimerState
  /\ timerState.isRunning
  /\ remoteOps = {}
  /\ localStorage # NoSnapshot
  /\ localStorage[1].isRunning
  /\ remoteDoc[user] # NoSnapshot
  /\ ~remoteDoc[user][1].isRunning

(* C20: when the page load restored a snapshot saved for preset P and    *)
(* the active preset has become P, with its presets known, the timer     *)
(* state still equals the restored values.                               *)
C20_RestoreSurvivesActivation ==
  ( /\ boot.phase = "active"
    /\ boot.local # NoSnapshot
    /\ BootRestored.restored
    /\ BootRestored.savedPresetId = activePresetId
    /\ pendingLoads = {} )
  => timerState = BootRestored.state

(* The state the save effect does not write: idle, 0 seconds, no preset *)
Untouched(ts, pid) ==
  ts.status = "idle" /\ ts.totalSeconds = 0 /\ pid = NoPresetId

(* The slot holds the timer state and the active preset id as given *)
SlotHolds(slot, ts, pid) ==
  /\ slot # NoSnapshot
  /\ slot[1].totalSeconds = ts.totalSeconds
  /\ slot[1].currentPhaseIndex = ts.currentPhaseIndex
  /\ slot[1].status = ts.status
  /\ slot[1].isRunning = ts.isRunning
  /\ slot[1].activePresetId = pid

(* C21: every step that changes the timer state to something other than *)
(* idle, 0 seconds, no preset leaves the slot holding the new state and  *)
(* the active preset id, and, with sync enabled and a user signed in,    *)
(* issues a remote write that, unless it fails, leaves the same snapshot *)
(* in the user's remote document.                                        *)
C21_SteadyStatePersistence ==
  [][ (timerState' # timerState /\ ~Untouched(timerState', activePresetId'))
      => /\ SlotHolds(localStorage', timerState', activePresetId')
         /\ (syncTimerState' /\ user' # NoUser)
            => /\ \E op \in remoteOps' : op.kind = "write" /\ op.user = user'
               /\ ~remoteFails => remoteDoc'[user'] = localStorage' ]_vars

(* A signed-in user with sync enabled has the timer running, and the     *)
(* step that led here wrote the running state to the slot and remotely   *)
C21_Witness ==
  /\ user # NoUser
  /\ syncTimerState
  /\ timerState.isRunning
  /\ SlotHolds(localStorage, timerState, activePresetId)
  /\ remoteDoc[user] = localStorage
  /\ \E op \in remoteOps : op.kind = "write" /\ op.user = user

(* C22: every snapshot write of a step, to the slot or to a remote       *)
(* document, carries the time at which it is made as savedAt; in         *)
(* particular none, the write-through of an adopted remote snapshot      *)
(* included, carries a savedAt before the time at which it is made.      *)
C22_NeverBackdated ==
  \A w \in writes : w.savedAt >= w.at

(* C23: while the remote service fails, a load that resolves leaves the  *)
(* timer state, the restore guard and the slot as they were, and a step  *)
(* that issues a remote write leaves the remote documents as they were   *)
(* and still writes the slot at that time.                               *)
C23_RemoteFailuresHarmless ==
  [][ remoteFails
      => /\ (pendingLoads' # pendingLoads /\ pendingLoads' \subseteq pendingLoads)
            => /\ timerState' = timerState
               /\ localStorage' = localStorage
               /\ hasRestoredState' = hasRestoredState
               /\ restoredPresetIdRef' = restoredPresetIdRef
         /\ (\E w \in writes' : w.to = "remote")
            => /\ remoteDoc' = remoteDoc
               /\ \E w \in writes' : w.to = "local" /\ w.at = now'
               /\ localStorage' # NoSnapshot
               /\ localStorage'[1].savedAt = now' ]_vars

(* The remote service fails, the user with sync enabled has started the  *)
(* timer: the slot holds the running state, the remote document does not *)
C23_Witness ==
  /\ remoteFails
  /\ user # NoUser
  /\ syncTimerState
  /\ timerState.isRunning
  /\ \E w \in writes : w.to = "remote"
  /\ SlotHolds(localStorage, timerState, activePresetId)
  /\ remoteDoc[user] # localStorage

(* C24: a step that changes the preset list and leaves the active preset *)
(* id and the active preset itself as they were (a presets snapshot that *)
(* touches other presets only) leaves the timer state unchanged.         *)
C24_PresetListUpdateKeepsState ==
  [][ ( /\ activePresetId # NoPresetId
        /\ activePresetId' = activePresetId
        /\ presets' # presets
        /\ ActivePreset(presets', activePresetId') = TheActivePreset
        /\ TheActivePreset # NoPreset )
      => timerState' = timerState ]_vars

(* C25: in the phase list of the preset form, after migration and after  *)
(* any adds, drags and deletes, the order of each phase is its array     *)
(* position, so the orders are exactly 0..n-1.                           *)
C25_OrderIsPosition ==
  \A i \in 1..Len(editorPhases) : editorPhases[i].order = i - 1

(* C26: whatever the snapshot and the time of the reconciliation, also   *)
(* a time before the snapshot's savedAt, the reconciled snapshot has at  *)
(* most the seconds of the snapshot.                                     *)
C26_ReconcileNeverAddsTime ==
  restoredSnapshot # <<>>
  => ReconciledSnapshot.totalSeconds <= SavedSnapshot.totalSeconds

(* C27: the slot never holds a running snapshot while the engine is not *)
(* running.                                                             *)
C27_SlotNotRunningWhenStopped ==
  (localStorage # NoSnapshot /\ localStorage[1].isRunning) => timerState.isRunning

(* C28: whenever the status is idle, the phase index is 0 and the        *)
(* seconds are the full first phase of the active preset, or 0 when no   *)
(* preset is active or the active preset has no phases.                  *)
C28_IdleIsFullFirstPhase ==
  timerState.status = "idle"
  => /\ timerState.currentPhaseIndex = 0
     /\ timerState.totalSeconds =
          IF NoPhases(TheActivePreset) THEN 0 ELSE PhaseSeconds(TheActivePreset, 0)

(* Idle on an active preset of several phases after the timer has been   *)
(* used: the slot was written and the seconds are the first phase's      *)
C28_Witness ==
  /\ timerState.status = "idle"
  /\ ~NoPhases(TheActivePreset)
  /\ Len(TheActivePreset.phases) > 1
  /\ timerState.totalSeconds = PhaseSeconds(TheActivePreset, 0)
  /\ localStorage # NoSnapshot
  /\ localStorage[1].status = "idle"

(* The engine has completed and no interval is set *)
CompletedAndStopped ==
  /\ timerState.status = "completed"
  /\ ~timerState.isRunning
  /\ timerState.totalSeconds = 0
  /\ liveTimers = 0
  /\ intervalRef = FALSE

(* C29: with the interval firing and nothing else happening, a running   *)
(* engine on a preset that does not loop eventually is completed and     *)
(* stopped with no interval set, and from then on the timer state does   *)
(* not change and no interval is set.                                    *)
C29_CountdownCompletes ==
  /\ (timerState.isRunning /\ ~TheActivePreset.loopPhases) ~> CompletedAndStopped
  /\ [][CompletedAndStopped
        => (timerState' = timerState /\ liveTimers' = 0 /\ intervalRef' = FALSE)]_vars

(* A preset of several phases that does not loop has run to its end *)
C29_Witness ==
  /\ CompletedAndStopped
  /\ ~TheActivePreset.loopPhases
  /\ Len(TheActivePreset.phases) > 1
  /\ timerState.currentPhaseIndex = Len(TheActivePreset.phases) - 1

(* C30: for one session of the time tracker, the sum of the increments  *)
(* passed to incrementLeaderboardStats never exceeds the session's      *)
(* elapsedSeconds, whatever the order in which the saveSession calls of *)
(* the save interval, the visibility handler, the unload handler and    *)
(* the cleanup run and resolve.                                         *)
C30_IncrementsWithinElapsed == tracker.passed <= tracker.elapsedSeconds

====
